---- MODULE Spec2Model ----
(***************************************************************************)
(* Model of main.py: the ffprobe metadata normalisation (get_video_info),  *)
(* the conformance predicates, the scale/crop arithmetic of process_video  *)
(* and the batch loop of process_all_videos.                               *)
(*                                                                         *)
(* Python floats are IEEE-754 binary64.  The float expressions of the      *)
(* source (w / h, src_h * (target_w / src_w), abs(ratio - target_ratio))   *)
(* are modelled bit for bit: a float is a record                           *)
(*     [zero, neg, e, m]                                                   *)
(* with m a sequence of Prec bits, most significant first and m[1] = 1,    *)
(* standing for (-1)^neg * 1.m[2]m[3]... * 2^e.  Every operation rounds to *)
(* nearest, ties to even, as the hardware does.                            *)
(***************************************************************************)
EXTENDS Integers, Sequences, FiniteSets, TLC

\* ------------------------------------------------------------------------
\* Program constants (main.py:39-44, 164)
TARGET_WIDTH == 1080
TARGET_HEIGHT == 1920
TARGET_FPS == 30
TARGET_BITRATE_K == 1000
MIN_BITRATE_K == 516
MIN_RES_WIDTH == 720
MAX_RES_WIDTH == 1440
MIN_RES_HEIGHT == 1280
MAX_RES_HEIGHT == 2560
\* significand width of a Python float (binary64)
Prec == 53

\* ------------------------------------------------------------------------
\* binary64 arithmetic

\* 2^0 .. 2^30
Pow2Table ==
    <<1, 2, 4, 8, 16, 32, 64, 128, 256, 512, 1024, 2048, 4096, 8192, 16384,
      32768, 65536, 131072, 262144, 524288, 1048576, 2097152, 4194304,
      8388608, 16777216, 33554432, 67108864, 134217728, 268435456,
      536870912, 1073741824>>
Pow2(k) == Pow2Table[k + 1]

Zeros(n) == [i \in 1..n |-> 0]

\* number of binary digits of a natural number c < 2^30
BitLen(c) ==
    CHOOSE k \in 0..30 : c < Pow2(k) /\ (k = 0 \/ Pow2(k - 1) <= c)

\* the low w binary digits of v, most significant first
FixBits(v, w) == [i \in 1..w |-> (v \div Pow2(w - i)) % 2]

\* binary digits of a natural number, most significant first; <<>> for 0
IntBits(c) == FixBits(c, BitLen(c))

\* value of bits[lo..hi] (fewer than 31 bits)
RECURSIVE BitsVal(_, _, _)
BitsVal(bits, lo, hi) ==
    IF lo > hi THEN 0
    ELSE IF lo = hi THEN bits[lo]
    ELSE BitsVal(bits, lo, (lo + hi) \div 2) * Pow2(hi - (lo + hi) \div 2)
         + BitsVal(bits, (lo + hi) \div 2 + 1, hi)

\* bits without its leading zeros
StripZeros(bits) ==
    IF \A i \in 1..Len(bits) : bits[i] = 0 THEN <<>>
    ELSE LET first == CHOOSE i \in 1..Len(bits) :
                          bits[i] = 1 /\ \A j \in 1..(i - 1) : bits[j] = 0
         IN  SubSeq(bits, first, Len(bits))

\* bits + 1, for bits that are not all ones: the lowest 0 becomes 1 and the
\* ones below it become 0
IncBits(bits) ==
    LET low == CHOOSE i \in 1..Len(bits) :
                   bits[i] = 0 /\ \A j \in (i + 1)..Len(bits) : bits[j] = 1
    IN  [i \in 1..Len(bits) |->
            IF i < low THEN bits[i] ELSE IF i = low THEN 1 ELSE 0]

FZero == [zero |-> TRUE, neg |-> FALSE, e |-> 0, m |-> Zeros(Prec)]

\* Round 1.bits[2]bits[3]... * 2^e (bits[1] = 1; sticky: a non-zero tail was
\* cut off beyond bits) to Prec bits, to nearest, ties to even.
RoundBits(bits, e, sticky, neg) ==
    IF Len(bits) <= Prec
    THEN [zero |-> FALSE, neg |-> neg, e |-> e,
          m |-> bits \o Zeros(Prec - Len(bits))]
    ELSE LET head == SubSeq(bits, 1, Prec)
             up == bits[Prec + 1] = 1
                   /\ (sticky \/ bits[Prec] = 1
                       \/ \E i \in (Prec + 2)..Len(bits) : bits[i] = 1)
         IN  IF ~up
             THEN [zero |-> FALSE, neg |-> neg, e |-> e, m |-> head]
             ELSE IF \A i \in 1..Prec : head[i] = 1
             THEN [zero |-> FALSE, neg |-> neg, e |-> e + 1,
                   m |-> <<1>> \o Zeros(Prec - 1)]
             ELSE [zero |-> FALSE, neg |-> neg, e |-> e, m |-> IncBits(head)]

\* floor(log2(a / b)) for 0 < a, b < 2^15
ExpOf(a, b) ==
    CHOOSE e \in -15..15 :
        IF e >= 0 THEN b * Pow2(e) <= a /\ a < b * Pow2(e + 1)
        ELSE b <= a * Pow2(-e) /\ a * Pow2(-e) < 2 * b

\* limbs: the bit sequences are processed LimbBits bits at a time
LimbBits == 13
NLimbs == 5
LimbBase == Pow2(LimbBits)

\* the first k limbs of the binary expansion of r / b (r < b < 2^17)
RECURSIVE QuotBits(_, _, _)
QuotBits(r, b, k) ==
    IF k = 0 THEN <<>>
    ELSE FixBits((r * LimbBase) \div b, LimbBits)
         \o QuotBits((r * LimbBase) % b, b, k - 1)

\* the remainder left after those k limbs
RECURSIVE QuotRem(_, _, _)
QuotRem(r, b, k) ==
    IF k = 0 THEN r ELSE QuotRem((r * LimbBase) % b, b, k - 1)

\* Python's a / b on ints 0 <= a < 2^15, 0 < b < 2^15: the correctly rounded
\* quotient.  an / bn is a / b scaled into [1, 2).
FDivInt(a, b) ==
    IF a = 0 THEN FZero
    ELSE LET e == ExpOf(a, b)
             an == IF e < 0 THEN a * Pow2(-e) ELSE a
             bn == IF e > 0 THEN b * Pow2(e) ELSE b
         IN  RoundBits(<<1>> \o QuotBits(an - bn, bn, NLimbs), e,
                       QuotRem(an - bn, bn, NLimbs) # 0, FALSE)

\* limb j (1 is the most significant) of a bit sequence of k * LimbBits bits
Limb(bits, j) == BitsVal(bits, LimbBits * (j - 1) + 1, LimbBits * j)

\* bits padded on the left to a whole number of limbs
PadLimbs(bits) ==
    Zeros((LimbBits - (Len(bits) % LimbBits)) % LimbBits) \o bits

\* (limbs 1..j of bits) * n + c in binary; c is the carry out of the limbs
\* below j.  n < 2^15.
RECURSIVE MulSmall(_, _, _, _)
MulSmall(bits, j, n, c) ==
    IF j = 0 THEN IntBits(c)
    ELSE MulSmall(bits, j - 1, n, (n * Limb(bits, j) + c) \div LimbBase)
         \o FixBits((n * Limb(bits, j) + c) % LimbBase, LimbBits)

\* Python's n * f for an int 0 <= n < 2^15 and a float f >= 0 (n converts
\* to float exactly, the product is rounded once)
FMulInt(n, f) ==
    IF n = 0 \/ f.zero THEN FZero
    ELSE LET p == StripZeros(MulSmall(PadLimbs(f.m), NLimbs, n, 0))
         IN  RoundBits(p, f.e + Len(p) - Prec, FALSE, FALSE)

\* Python's int(f) for a float 0 <= f < 2^30: truncation
FloatToInt(f) ==
    IF f.zero \/ f.e < 0 THEN 0 ELSE BitsVal(f.m, 1, f.e + 1)

\* a < b for bit sequences of equal length
BitsLess(a, b) ==
    \E i \in 1..Len(a) :
        a[i] < b[i] /\ \A j \in 1..(i - 1) : a[j] = b[j]

\* (limbs 1..j of a) - (limbs 1..j of b) - br for bit sequences of equal
\* length, a whole number of limbs, with a >= b; br is the borrow
RECURSIVE SubBits(_, _, _, _)
SubBits(a, b, j, br) ==
    IF j = 0 THEN <<>>
    ELSE SubBits(a, b, j - 1,
                 IF Limb(a, j) - Limb(b, j) - br < 0 THEN 1 ELSE 0)
         \o FixBits((Limb(a, j) - Limb(b, j) - br + LimbBase) % LimbBase,
                    LimbBits)

\* Python's x - y for floats x, y >= 0: both significands are written at the
\* smaller exponent, subtracted exactly, and the difference rounded once
FSub(x, y) ==
    IF y.zero THEN x
    ELSE IF x.zero THEN [y EXCEPT !.neg = TRUE]
    ELSE LET lo == IF x.e < y.e THEN x.e ELSE y.e
             hi == IF x.e > y.e THEN x.e ELSE y.e
             xb == PadLimbs(Zeros(hi - x.e) \o x.m \o Zeros(x.e - lo))
             yb == PadLimbs(Zeros(hi - y.e) \o y.m \o Zeros(y.e - lo))
             neg == BitsLess(xb, yb)
             d == StripZeros(
                      IF neg THEN SubBits(yb, xb, Len(xb) \div LimbBits, 0)
                             ELSE SubBits(xb, yb, Len(xb) \div LimbBits, 0))
         IN  IF d = <<>> THEN FZero
             ELSE RoundBits(d, lo - Prec + Len(d), FALSE, neg)

\* Python's abs(x)
FAbs(x) == [x EXCEPT !.neg = FALSE]

\* Python's x <= y for floats x, y >= 0
FLe(x, y) ==
    IF x.zero THEN TRUE
    ELSE IF y.zero THEN FALSE
    ELSE IF x.e # y.e THEN x.e < y.e
    ELSE ~BitsLess(y.m, x.m)

\* the literal 0.01 and the expression 9 / 16
ASPECT_RATIO_TOL == FDivInt(1, 100)
target_ratio == FDivInt(9, 16)

\* ------------------------------------------------------------------------
\* Bounds of the model

\* files in the input directory (matched or not)
MaxFiles == 4
\* streams in one ffprobe output
MaxStreams == 3
\* source widths and heights 1..MaxDim, beside the sizes of SampleDims
MaxDim == 6

\* ------------------------------------------------------------------------
\* State

VARIABLES
    \* the environment of the run
    input_dir_exists,      \* input_dir.exists()
    ffprobe_exists,        \* os.path.exists(FFPROBE_PATH)
    ffmpeg_lib_installed,  \* "import ffmpeg" succeeds
    ffmpeg_bin_exists,     \* the binary at FFMPEG_PATH can be started
    dir_entries,           \* input_dir.rglob("*"), in order
    \* process_all_videos
    pc,                    \* "start", "loop", "call", "returned", "crashed"
    videos,                \* the matched files
    idx,                   \* position of video_file in videos
    output_dir_created,    \* output_dir.mkdir(...) was called
    dialog,                \* the messagebox shown: "none", "error", "info", "done"
    summary_count,         \* the count in the final dialog, -1 before it
    has_audio,             \* the local of line 272
    output_file,           \* the local of lines 276/280
    \* what happened to the file at hand (history)
    name_probe,            \* "none", "failed", "audio", "silent": probe of line 271
    proc_info,             \* the info of line 174: {} for None, else {record}
    outcome,               \* "none", "Copied", "Encoded", "Skipped", "Raised"
    copy_called,           \* shutil.copy2 was called
    encoder_called,        \* ffmpeg run(...) was called
    encoder_args,          \* {} or {the filter chain and outputs given to it}
    \* what happened in the whole batch (history)
    any_probe,             \* get_video_info was called
    any_copy,              \* shutil.copy2 was called
    any_encode,            \* ffmpeg run(...) was called
    \* get_video_info applied to one ffprobe output
    p_pc, p_exists, p_raw, p_result,
    \* the conformance predicates and the scale/crop arithmetic applied to one size
    g_pc, g_w, g_h, g_plan, g_aspect

env_vars == <<input_dir_exists, ffprobe_exists, ffmpeg_lib_installed,
              ffmpeg_bin_exists, dir_entries>>
batch_vars == <<pc, videos, idx, output_dir_created, dialog, summary_count,
                has_audio, output_file>>
file_vars == <<name_probe, proc_info, outcome, copy_called, encoder_called,
               encoder_args>>
total_vars == <<any_probe, any_copy, any_encode>>
run_vars == <<env_vars, batch_vars, file_vars, total_vars>>
probe_vars == <<p_pc, p_exists, p_raw, p_result>>
geom_vars == <<g_pc, g_w, g_h, g_plan, g_aspect>>
vars == <<run_vars, probe_vars, geom_vars>>

\* ------------------------------------------------------------------------
\* ffprobe output

\* A JSON field: absent, a number, a string of decimal digits (v is its
\* value), the empty string, or another string such as "N/A".
Absent == [k |-> "absent", v |-> 0]
Num(n) == [k |-> "number", v |-> n]
Digits(n) == [k |-> "digits", v |-> n]
EmptyStr == [k |-> "empty", v |-> 0]
Text == [k |-> "text", v |-> 0]

\* r_frame_rate: absent, "num/den", or a string without "/" that is no number
NoRate == [k |-> "absent", num |-> 0, den |-> 0]
Rate(n, d) == [k |-> "ratio", num |-> n, den |-> d]
BadRate == [k |-> "text", num |-> 0, den |-> 0]

Stream(t, w, h, r, b) ==
    [codec_type |-> t, width |-> w, height |-> h, r_frame_rate |-> r,
     bit_rate |-> b]

AudioStream == Stream("audio", Absent, Absent, NoRate, Digits(128000))
SubtitleStream == Stream("subtitle", Absent, Absent, NoRate, Absent)
Video(w, h, b) == Stream("video", Num(w), Num(h), Rate(30, 1), b)

\* what one run of ffprobe gives: a non-zero exit, no output, output that is
\* no JSON even after the repairs of lines 84-124, or the parsed probe_data
NoData == [streams |-> <<>>, format_bit_rate |-> Absent]
ExitError == [kind |-> "exit_error", probe_data |-> NoData]
NoOutput == [kind |-> "empty", probe_data |-> NoData]
BadJson == [kind |-> "unparseable", probe_data |-> NoData]
Json(streams, fbr) ==
    [kind |-> "json",
     probe_data |-> [streams |-> streams, format_bit_rate |-> fbr]]

\* ------------------------------------------------------------------------
\* get_video_info

\* the loop of lines 125-131: acc is [video_stream, has_audio], video_stream
\* being {} for None
RECURSIVE scan_streams(_, _, _)
scan_streams(streams, i, acc) ==
    IF i > Len(streams) THEN acc
    ELSE scan_streams(streams, i + 1,
             IF streams[i].codec_type = "video"
             THEN [acc EXCEPT !.video_stream = {streams[i]}]
             ELSE IF streams[i].codec_type = "audio"
             THEN [acc EXCEPT !.has_audio = TRUE]
             ELSE acc)

\* int(video_stream.get(key, 0))
int_field(f) == IF f.k = "absent" THEN 0 ELSE f.v

\* lines 138-142: eval of "num/den", 30.0 when that raises
parse_frame_rate(r) ==
    IF r.k = "absent" THEN FDivInt(30, 1)
    ELSE IF r.k = "ratio" /\ r.den # 0 THEN FDivInt(r.num, r.den)
    ELSE FDivInt(30, 1)

\* Python truth value of a field read with .get()
truthy(f) ==
    \/ f.k \in {"digits", "text"}
    \/ f.k = "number" /\ f.v # 0

\* line 144: a or b
bitrate_str(stream_br, format_br) ==
    IF truthy(stream_br) THEN stream_br ELSE format_br

\* line 145; a number has no isdigit(): the AttributeError is caught at
\* line 157 and the probe is None
bitrate_raises(f) == f.k = "number" /\ f.v # 0
bitrate_kbps(f) == IF f.k = "digits" THEN f.v \div 1000 ELSE 0

\* get_video_info: {} for None, {info} otherwise
get_video_info(exists, raw) ==
    IF ~exists THEN {}
    ELSE IF raw.kind # "json" THEN {}
    ELSE LET found == scan_streams(raw.probe_data.streams, 1,
                          [video_stream |-> {}, has_audio |-> FALSE])
         IN  IF found.video_stream = {} THEN {}
             ELSE LET video_stream == CHOOSE st \in found.video_stream : TRUE
                      br == bitrate_str(video_stream.bit_rate,
                                        raw.probe_data.format_bit_rate)
                  IN  IF bitrate_raises(br) THEN {}
                      ELSE {[width |-> int_field(video_stream.width),
                             height |-> int_field(video_stream.height),
                             bitrate_kbps |-> bitrate_kbps(br),
                             fps |-> parse_frame_rate(video_stream.r_frame_rate),
                             has_audio |-> found.has_audio]}

TheInfo(info) == CHOOSE r \in info : TRUE

\* ------------------------------------------------------------------------
\* Conformance predicates and the scale/crop arithmetic

is_valid_resolution(w, h) ==
    (MIN_RES_WIDTH <= w /\ w <= MAX_RES_WIDTH)
    /\ (MIN_RES_HEIGHT <= h /\ h <= MAX_RES_HEIGHT)

\* h # 0; with h = 0 the division raises ZeroDivisionError
is_valid_aspect_ratio(w, h) ==
    LET ratio == FDivInt(w, h)
    IN  FLe(FAbs(FSub(ratio, target_ratio)), ASPECT_RATIO_TOL)

Max0(v) == IF v > 0 THEN v ELSE 0

\* src_w, src_h > 0; lines 204-211
scale_crop(src_w, src_h) ==
    LET scale_h0 == FloatToInt(FMulInt(src_h, FDivInt(TARGET_WIDTH, src_w)))
        rederive == scale_h0 < TARGET_HEIGHT
        scale_h == IF rederive THEN TARGET_HEIGHT ELSE scale_h0
        scale_w == IF rederive
                   THEN FloatToInt(FMulInt(src_w, FDivInt(TARGET_HEIGHT, src_h)))
                   ELSE TARGET_WIDTH
    IN  [scale_w |-> scale_w, scale_h |-> scale_h,
         x |-> Max0((scale_w - TARGET_WIDTH) \div 2),
         y |-> Max0((scale_h - TARGET_HEIGHT) \div 2)]

\* ------------------------------------------------------------------------
\* process_video

NoArgs == {}
Result(o, copied, encoded, args) ==
    [outcome |-> o, copy_called |-> copied, encoder_called |-> encoded,
     encoder_args |-> args]

\* lines 213-239: the filter chain, the options and the outputs of the encode
encode_plan(info, out) ==
    LET plan == scale_crop(info.width, info.height)
    IN  {[scale_w |-> plan.scale_w, scale_h |-> plan.scale_h,
          x |-> plan.x, y |-> plan.y,
          crop_w |-> TARGET_WIDTH, crop_h |-> TARGET_HEIGHT,
          fps |-> TARGET_FPS, vcodec |-> "libx264",
          video_bitrate_k |-> TARGET_BITRATE_K,
          with_audio |-> info.has_audio, output |-> out]}

\* process_video on the info of line 174.  io_ok: the external call (copy2 or
\* the ffmpeg run) succeeds.  "Raised" is an exception that leaves
\* process_video: ZeroDivisionError at line 168 (h = 0) or 205 (w = 0).
process_video(info, out, lib_installed, bin_exists, io_ok) ==
    IF info = {} THEN Result("Skipped", FALSE, FALSE, NoArgs)
    ELSE LET r == TheInfo(info) IN
         IF r.height = 0 THEN Result("Raised", FALSE, FALSE, NoArgs)
         ELSE IF /\ is_valid_aspect_ratio(r.width, r.height)
                 /\ is_valid_resolution(r.width, r.height)
                 /\ r.bitrate_kbps >= MIN_BITRATE_K
         THEN Result(IF io_ok THEN "Copied" ELSE "Skipped", TRUE, FALSE, NoArgs)
         ELSE IF ~lib_installed
         THEN Result("Skipped", FALSE, FALSE, NoArgs)
         ELSE IF r.width = 0 THEN Result("Raised", FALSE, FALSE, NoArgs)
         ELSE Result(IF bin_exists /\ io_ok THEN "Encoded" ELSE "Skipped",
                     FALSE, TRUE, encode_plan(r, out))

\* ------------------------------------------------------------------------
\* process_all_videos

video_extensions == {".mp4", ".mov", ".avi", ".mkv", ".flv", ".wmv"}

\* str.lower() on the suffixes that occur
lower(s) ==
    CASE s = ".MOV" -> ".mov"
      [] s = ".MP4" -> ".mp4"
      [] OTHER -> s

\* line 263
matched(entries) ==
    SelectSeq(entries, LAMBDA f : lower(f.suffix) \in video_extensions)

OUTPUT_DIR == "out"
\* stands for the marker of line 279
NO_AUDIO_MARKER == "[no-audio]"

\* output_path with the marker written once instead of twice
output_path_single_marker(video_file, audio) ==
    [dir |-> OUTPUT_DIR,
     name |-> IF audio
              THEN video_file.stem \o video_file.suffix
              ELSE video_file.stem \o "_" \o NO_AUDIO_MARKER
                   \o video_file.suffix]

\* lines 275-280: output_dir / name
output_path(video_file, audio) ==
    [dir |-> OUTPUT_DIR,
     name |-> IF audio
              THEN video_file.stem \o video_file.suffix
              ELSE video_file.stem \o "_" \o NO_AUDIO_MARKER
                   \o NO_AUDIO_MARKER \o video_file.suffix]

NoPath == [dir |-> "", name |-> ""]

\* process_all_videos_start without the check of line 256
process_all_videos_start_unchecked ==
    /\ pc = "start"
    /\ output_dir_created' = TRUE
    /\ videos' = matched(dir_entries)
    /\ IF matched(dir_entries) = <<>>
       THEN dialog' = "info" /\ pc' = "returned" /\ idx' = idx
       ELSE dialog' = dialog /\ pc' = "loop" /\ idx' = 1
    /\ UNCHANGED <<summary_count, has_audio, output_file>>
    /\ UNCHANGED <<env_vars, file_vars, total_vars, probe_vars, geom_vars>>

\* lines 254-267
process_all_videos_start ==
    /\ pc = "start"
    /\ IF ~input_dir_exists
       THEN /\ dialog' = "error"
            /\ pc' = "returned"
            /\ UNCHANGED <<videos, idx, output_dir_created>>
       ELSE /\ output_dir_created' = TRUE
            /\ videos' = matched(dir_entries)
            /\ IF matched(dir_entries) = <<>>
               THEN dialog' = "info" /\ pc' = "returned" /\ idx' = idx
               ELSE dialog' = dialog /\ pc' = "loop" /\ idx' = 1
    /\ UNCHANGED <<summary_count, has_audio, output_file>>
    /\ UNCHANGED <<env_vars, file_vars, total_vars, probe_vars, geom_vars>>

\* the ffprobe outputs the batch model draws from
Conformant(audio) ==
    Json(<<Video(1080, 1920, Digits(800000))>>
         \o (IF audio THEN <<AudioStream>> ELSE <<>>), Absent)
RawProbes ==
    {ExitError,
     Json(<<AudioStream>>, Digits(128000)),
     Conformant(TRUE),
     Conformant(FALSE),
     Json(<<Video(916, 1600, Digits(800000)), AudioStream>>, Absent),
     Json(<<Video(1080, 1920, Absent), AudioStream>>, Digits(400000)),
     Json(<<Video(1920, 1080, Digits(2000000))>>, Absent),
     Json(<<Stream("video", Num(1080), Absent, NoRate, Absent), AudioStream>>,
          Digits(800000)),
     Json(<<Stream("video", Absent, Num(1920), NoRate, Absent)>>, Absent)}

\* lines 270-284 for video_file = videos[idx]
name_output ==
    /\ pc = "loop"
    /\ idx <= Len(videos)
    /\ \E raw \in RawProbes :
          LET video_info == get_video_info(ffprobe_exists, raw)
              audio == IF video_info # {} THEN TheInfo(video_info).has_audio
                       ELSE TRUE
          IN  /\ has_audio' = audio
              /\ output_file' = output_path(videos[idx], audio)
              /\ name_probe' = IF video_info = {} THEN "failed"
                               ELSE IF TheInfo(video_info).has_audio
                               THEN "audio" ELSE "silent"
    /\ pc' = "call"
    /\ proc_info' = {}
    /\ outcome' = "none"
    /\ copy_called' = FALSE
    /\ encoder_called' = FALSE
    /\ encoder_args' = NoArgs
    /\ any_probe' = TRUE
    /\ UNCHANGED <<videos, idx, output_dir_created, dialog, summary_count>>
    /\ UNCHANGED <<any_copy, any_encode>>
    /\ UNCHANGED <<env_vars, probe_vars, geom_vars>>

\* line 285: process_video(str(video_file), str(output_file)), lines 173-251
call_process_video ==
    /\ pc = "call"
    /\ \E raw \in RawProbes, io_ok \in BOOLEAN :
          LET info == get_video_info(ffprobe_exists, raw)
              res == process_video(info, output_file, ffmpeg_lib_installed,
                                   ffmpeg_bin_exists, io_ok)
          IN  /\ proc_info' = info
              /\ outcome' = res.outcome
              /\ copy_called' = res.copy_called
              /\ encoder_called' = res.encoder_called
              /\ encoder_args' = res.encoder_args
              /\ any_copy' = (any_copy \/ res.copy_called)
              /\ any_encode' = (any_encode \/ res.encoder_called)
              /\ IF res.outcome = "Raised"
                 THEN pc' = "crashed" /\ idx' = idx
                 ELSE pc' = "loop" /\ idx' = idx + 1
    /\ any_probe' = TRUE
    /\ UNCHANGED <<videos, output_dir_created, dialog, summary_count,
                   has_audio, output_file, name_probe>>
    /\ UNCHANGED <<env_vars, probe_vars, geom_vars>>

\* lines 287-288
process_all_videos_finish ==
    /\ pc = "loop"
    /\ idx > Len(videos)
    /\ dialog' = "done"
    /\ summary_count' = Len(videos)
    /\ pc' = "returned"
    /\ UNCHANGED <<videos, idx, output_dir_created, has_audio, output_file>>
    /\ UNCHANGED <<env_vars, file_vars, total_vars, probe_vars, geom_vars>>

\* the files of the input directory: same name in two directories, a file
\* that is no video, an upper-case suffix
EntryAt(i) ==
    CASE i % 4 = 1 -> [dir |-> "", stem |-> "clip", suffix |-> ".mp4"]
      [] i % 4 = 2 -> [dir |-> "sub", stem |-> "clip", suffix |-> ".mp4"]
      [] i % 4 = 3 -> [dir |-> "", stem |-> "notes", suffix |-> ".txt"]
      [] OTHER -> [dir |-> "sub/deep", stem |-> "b", suffix |-> ".MOV"]

IdlePlan == [scale_w |-> 0, scale_h |-> 0, x |-> 0, y |-> 0]

ProbeIdle ==
    /\ p_pc = "idle"
    /\ p_exists = FALSE
    /\ p_raw = ExitError
    /\ p_result = {}

GeomIdle ==
    /\ g_pc = "idle"
    /\ g_w = 0
    /\ g_h = 0
    /\ g_plan = IdlePlan
    /\ g_aspect = FALSE

RunStart(p) ==
    /\ pc = p
    /\ videos = <<>>
    /\ idx = 0
    /\ output_dir_created = FALSE
    /\ dialog = "none"
    /\ summary_count = -1
    /\ has_audio = TRUE
    /\ output_file = NoPath
    /\ name_probe = "none"
    /\ proc_info = {}
    /\ outcome = "none"
    /\ copy_called = FALSE
    /\ encoder_called = FALSE
    /\ encoder_args = NoArgs
    /\ any_probe = FALSE
    /\ any_copy = FALSE
    /\ any_encode = FALSE

RunIdle ==
    /\ input_dir_exists = FALSE
    /\ ffprobe_exists = FALSE
    /\ ffmpeg_lib_installed = FALSE
    /\ ffmpeg_bin_exists = FALSE
    /\ dir_entries = <<>>
    /\ RunStart("idle")

Init ==
    /\ input_dir_exists \in BOOLEAN
    /\ ffprobe_exists \in BOOLEAN
    /\ ffmpeg_lib_installed \in BOOLEAN
    /\ ffmpeg_bin_exists \in BOOLEAN
    /\ \E n \in 0..MaxFiles : dir_entries = [i \in 1..n |-> EntryAt(i)]
    /\ RunStart("start")
    /\ ProbeIdle
    /\ GeomIdle

Next ==
    \/ process_all_videos_start
    \/ name_output
    \/ call_process_video
    \/ process_all_videos_finish

Spec == Init /\ [][Next]_vars

\* ------------------------------------------------------------------------
\* get_video_info on its own, over all short stream lists

StreamChoices ==
    {Video(1080, 1920, Digits(800000)),
     Stream("video", Num(1920), Num(1080), Rate(25, 1), Text),
     Stream("video", Num(720), Num(1280), BadRate, EmptyStr),
     Stream("video", Absent, Absent, NoRate, Absent),
     AudioStream,
     SubtitleStream}

FormatBitRates == {Absent, Digits(900000), Text}

ProbeOutputs ==
    {ExitError, NoOutput, BadJson}
    \cup {Json(st, fbr) :
            st \in UNION {[1..k -> StreamChoices] : k \in 0..MaxStreams},
            fbr \in FormatBitRates}

ProbeInit ==
    /\ p_pc = "ready"
    /\ p_exists \in BOOLEAN
    /\ p_raw \in ProbeOutputs
    /\ p_result = {}
    /\ RunIdle
    /\ GeomIdle

probe_file ==
    /\ p_pc = "ready"
    /\ p_result' = get_video_info(p_exists, p_raw)
    /\ p_pc' = "done"
    /\ UNCHANGED <<p_exists, p_raw, run_vars, geom_vars>>

ProbeNext == probe_file

ProbeSpec == ProbeInit /\ [][ProbeNext]_vars

\* ------------------------------------------------------------------------
\* The conformance predicates and the scale/crop arithmetic on their own

SampleDims == {11, 480, 720, 854, 916, 1080, 1600, 1920, 8487, 15088}
GeomDims == (1..MaxDim) \cup SampleDims

GeomInit ==
    /\ g_pc = "ready"
    /\ g_w \in GeomDims
    /\ g_h \in GeomDims
    /\ g_plan = IdlePlan
    /\ g_aspect = FALSE
    /\ RunIdle
    /\ ProbeIdle

plan_geometry ==
    /\ g_pc = "ready"
    /\ g_plan' = scale_crop(g_w, g_h)
    /\ g_aspect' = is_valid_aspect_ratio(g_w, g_h)
    /\ g_pc' = "done"
    /\ UNCHANGED <<g_w, g_h, run_vars, probe_vars>>

GeomNext == plan_geometry

GeomSpec == GeomInit /\ [][GeomNext]_vars

\* ------------------------------------------------------------------------
\* Properties

\* the file the history variables are about
CurFile == IF pc \in {"call", "crashed"} THEN videos[idx] ELSE videos[idx - 1]
Processed == outcome # "none"

\* |w/h - 9/16| <= 1/100 over the rationals
ExactAspectOk(w, h) ==
    /\ h > 0
    /\ 100 * (IF 16 * w >= 9 * h THEN 16 * w - 9 * h ELSE 9 * h - 16 * w)
       <= 16 * h

ExactConformant(r) ==
    /\ ExactAspectOk(r.width, r.height)
    /\ MIN_RES_WIDTH <= r.width /\ r.width <= MAX_RES_WIDTH
    /\ MIN_RES_HEIGHT <= r.height /\ r.height <= MAX_RES_HEIGHT
    /\ r.bitrate_kbps >= MIN_BITRATE_K

\* C1: a probed file is copied iff its probe satisfies the aspect, resolution
\* and bitrate constraints; a copied file is never handed to the encoder, and
\* every other file is handed to the encoder and not copied.  Stated for
\* probes with positive width and height and with the encoding library
\* installed.
C1_CopyIffConformant ==
    (/\ Processed
     /\ proc_info # {}
     /\ ffmpeg_lib_installed
     /\ TheInfo(proc_info).width > 0
     /\ TheInfo(proc_info).height > 0)
    => /\ copy_called <=> ExactConformant(TheInfo(proc_info))
       /\ copy_called => ~encoder_called
       /\ ~ExactConformant(TheInfo(proc_info))
              => (encoder_called /\ ~copy_called)

\* C2: whatever the prober returns, process_video ends Copied, Encoded or
\* Skipped without raising, the loop goes on through every matched file, and
\* the summary reports the number of matched files.
C2_NoOutcomeAbortsBatch ==
    /\ outcome # "Raised"
    /\ pc # "crashed"
    /\ dialog = "done"
          => (summary_count = Len(videos) /\ idx = Len(videos) + 1)

\* C3: every record get_video_info returns has width > 0 and height > 0.
C3_ProbeDimsPositive ==
    (p_pc = "done" /\ p_result # {})
    => (TheInfo(p_result).width > 0 /\ TheInfo(p_result).height > 0)

C5_OutputNaming ==
    name_probe # "none"
    => /\ output_file.dir = OUTPUT_DIR
       /\ output_file.name =
             IF name_probe = "silent"
             THEN CurFile.stem \o "_" \o NO_AUDIO_MARKER \o NO_AUDIO_MARKER
                  \o CurFile.suffix
             ELSE CurFile.stem \o CurFile.suffix

C5_Witness ==
    /\ pc = "call"
    /\ name_probe = "silent"
    /\ CurFile.dir # ""
    /\ output_file.name = "clip_[no-audio][no-audio].mp4"

\* C6: for every source size with width, height > 0 the scale covers the
\* target (scale_w >= 1080, scale_h >= 1920) and the crop offsets are >= 0.
C6_CoverGuarantee ==
    g_pc = "done"
    => /\ g_plan.scale_w >= TARGET_WIDTH
       /\ g_plan.scale_h >= TARGET_HEIGHT
       /\ g_plan.x >= 0
       /\ g_plan.y >= 0

\* a * b / c rounded to the nearest integer
RoundDiv(a, b, c) == (2 * a * b + c) \div (2 * c)

\* the scale-to-cover algorithm as specified
SpecPlan(w, h) ==
    LET sh0 == RoundDiv(h, TARGET_WIDTH, w)
        sw == IF sh0 < TARGET_HEIGHT THEN RoundDiv(w, TARGET_HEIGHT, h)
              ELSE TARGET_WIDTH
        sh == IF sh0 < TARGET_HEIGHT THEN TARGET_HEIGHT ELSE sh0
    IN  [scale_w |-> sw, scale_h |-> sh,
         x |-> Max0((sw - TARGET_WIDTH) \div 2),
         y |-> Max0((sh - TARGET_HEIGHT) \div 2)]

\* C7: the scale and crop values computed in process_video are those of the
\* specified algorithm (round to nearest, re-derive from the height when the
\* rounded height is under 1920, centred crop).
C7_PlanMatchesSpec ==
    g_pc = "done" => g_plan = SpecPlan(g_w, g_h)

\* positions of the video and audio streams of the probed output
VideoAt == {i \in 1..Len(p_raw.probe_data.streams) :
               p_raw.probe_data.streams[i].codec_type = "video"}
AudioAt == {i \in 1..Len(p_raw.probe_data.streams) :
               p_raw.probe_data.streams[i].codec_type = "audio"}
FirstVideo ==
    p_raw.probe_data.streams[CHOOSE i \in VideoAt : \A j \in VideoAt : i <= j]
Parsed == p_pc = "done" /\ p_exists /\ p_raw.kind = "json"

\* C8: width, height and frame rate come from the first video stream,
\* has_audio holds iff some stream is audio, and the result is None iff there
\* is no video stream.
C8_FirstVideoStream ==
    Parsed
    => /\ p_result = {} <=> VideoAt = {}
       /\ p_result # {}
             => /\ TheInfo(p_result).width = int_field(FirstVideo.width)
                /\ TheInfo(p_result).height = int_field(FirstVideo.height)
                /\ TheInfo(p_result).fps
                      = parse_frame_rate(FirstVideo.r_frame_rate)
                /\ TheInfo(p_result).has_audio = (AudioAt # {})

ValidBitRate(f) == f.k = "digits"

\* C9: bitrate_kbps is the video stream's bit_rate div 1000 when that is a
\* valid non-negative integer, else the container's bit_rate div 1000 when
\* that is one, else 0; and the bitrate never makes the result None.  Stated
\* for outputs with exactly one video stream.
C9_BitrateFallback ==
    (Parsed /\ Cardinality(VideoAt) = 1)
    => /\ p_result # {}
       /\ TheInfo(p_result).bitrate_kbps =
             IF ValidBitRate(FirstVideo.bit_rate)
             THEN FirstVideo.bit_rate.v \div 1000
             ELSE IF ValidBitRate(p_raw.probe_data.format_bit_rate)
             THEN p_raw.probe_data.format_bit_rate.v \div 1000
             ELSE 0

\* C10: the audio flag that chose the output name is the audio flag the
\* encoder outputs are built from, and a file named from a successful probe
\* is never skipped as an invalid video.
C10_NamingMatchesEncoding ==
    Processed
    => /\ encoder_called
             => (CHOOSE a \in encoder_args : TRUE).with_audio = has_audio
       /\ name_probe \in {"audio", "silent"} => proc_info # {}

====
